---------------------------- MODULE Spec2Model ----------------------------
(***************************************************************************)
(* Model of the resilient request executor (src/src/request.rs), of the    *)
(* fetcher and the computations on its series (src/src/data.rs) and of the *)
(* HTTP handlers (src/src/server.rs).                                      *)
(*                                                                         *)
(* Each entry point has a specification of its own:                        *)
(*   SpecRequest     one call of Request::process_request                  *)
(*   SpecConcurrent  two calls of it, interleaved at their await points    *)
(*   SpecFetch       one call of HistoricalData::get_yearly_data_by_token  *)
(*   SpecCovariance  one call of HistoricalData::calculate_covariance      *)
(*   SpecPipeline    the same, its two fetches run through the executor    *)
(*   SpecVolatility  one call of calculate_realized_volatility             *)
(*   SpecLogReturns  calculate_log_returns applied to a price sequence     *)
(*   SpecServer      one request to get_covariance or get_volatility       *)
(* The variables of the entry points a specification does not run stay at  *)
(* their idle values.                                                      *)
(***************************************************************************)
EXTENDS Integers, Sequences, FiniteSets, TLC

VARIABLES
    \* ---- Request::process_request: arguments, locals, position ----
    method,            \* the `method` argument
    url,               \* the `url` argument (a string that may fail to parse)
    pc,                \* position of the call: see RequestPcs
    attempt,           \* `let mut attempt`
    res,               \* the response last returned by request.send()
    result,            \* the value the call returned
    \* ---- observations of the call's side effects ----
    sends,             \* calls of request.send()
    sleeps,            \* calls of sleep(wait_delay)
    transport_errors,  \* send() results that were Err(_)
    errors_logged,     \* error!(..) lines written (404 / 429)
    warnings_logged,   \* warn!(..) lines written (other statuses)
    \* ---- HistoricalData::calculate_covariance ----
    cpc,               \* position of the call: see CovariancePcs
    token_1,           \* the `token_1` argument
    token_2,           \* the `token_2` argument
    fetched_1,         \* what get_yearly_data_by_token(&token_1) returned
    fetched_2,         \* what get_yearly_data_by_token(&token_2) returned
    token_1_data,      \* `let mut token_1_data`
    token_2_data,      \* `let mut token_2_data`
    common_dates,      \* `let common_dates`
    cov_result,        \* the value the call returned
    \* ---- HistoricalData::get_yearly_data_by_token ----
    fpc,               \* position of the call: see FetchPcs
    f_token,           \* the `token` argument
    f_res,             \* what Request::process_request returned (`res`)
    filtered_data,     \* `let filtered_data`
    timestamp,         \* `let timestamp`
    fetch_outcome,     \* the value the call returned
    \* ---- HistoricalData::calculate_realized_volatility ----
    vpc,               \* position of the call: see VolatilityPcs
    v_token,           \* the `token` argument
    price_data,        \* what get_yearly_data_by_token(&token) returned
    key_order,         \* the order in which price_data.keys() gave the dates
    sorted_dates,      \* `let mut sorted_dates`
    prices,            \* `let prices` / the argument of calculate_log_returns
    log_returns,       \* what calculate_log_returns(&prices) returned
    vol_result,        \* the value the call returned
    \* ---- server.rs: get_covariance / get_volatility ----
    spc,               \* position of the handler: see ServerPcs
    endpoint,          \* the route the request came to
    query,             \* the query parameters after extraction
    computation,       \* what the awaited computation came to
    computations,      \* calls of calculate_covariance / _realized_volatility
    http_response,     \* the response the handler returned
    \* ---- two calls of Request::process_request running concurrently ----
    runs               \* for each call: its position, locals and observations

reqVars == <<method, url, pc, attempt, res, result, sends, sleeps,
             transport_errors, errors_logged, warnings_logged>>
covVars == <<cpc, token_1, token_2, fetched_1, fetched_2, token_1_data,
             token_2_data, common_dates, cov_result>>
fetchVars == <<fpc, f_token, f_res, filtered_data, timestamp, fetch_outcome>>
\* The variables of the entry points other than process_request and
\* calculate_covariance.
volVars == <<vpc, v_token, price_data, key_order, sorted_dates, prices,
             log_returns, vol_result>>
srvVars == <<spc, endpoint, query, computation, computations, http_response>>
extVars == <<fetchVars, volVars, srvVars, runs>>
notFetchVars == <<reqVars, covVars, volVars, srvVars, runs>>
notVolVars == <<reqVars, covVars, fetchVars, srvVars, runs>>
notSrvVars == <<reqVars, covVars, fetchVars, volVars, runs>>
notRunVars == <<reqVars, covVars, fetchVars, volVars, srvVars>>
vars == <<reqVars, covVars, extVars>>

(***************************************************************************)
(*                       Request::process_request                          *)
(***************************************************************************)

\* request.rs:40  let attempts_limit = 15;
attempts_limit == 15

\* reqwest::Method values a caller can pass.
Methods == {"GET", "POST", "PUT", "DELETE"}

\* A variant of SupportedMethod with the `_ =>` arm missing: every method
\* builds a request.
SupportedMethod_Any(m) == m \in Methods
\* request.rs:53,56  the two arms of `match method.clone()` that build a request.
SupportedMethod(m) == m \in {"GET", "POST"}

\* The `url` arguments tried: one that reqwest::Url::parse accepts and one
\* it rejects.
GoodUrl == "https://host/chart"
BadUrl == "not a url"
Urls == {GoodUrl, BadUrl}

\* request.rs:48  reqwest::Url::parse(url.as_ref())
UrlParses(u) == u = GoodUrl

\* The URL a response reports (res.url()): the requested one, or the one a
\* followed redirect ended at.
RedirectedUrl == "https://host/moved"
ResponseUrls == {GoodUrl, RedirectedUrl}

\* HTTP statuses the upstream answers with: the four the code names and two
\* it does not.
Statuses == {200, 404, 429, 504, 500, 403}

\* What reading a response's body yields: a JSON document, text that is not
\* JSON, or a read that fails before the body is complete.
Bodies == {"B1", "B2", "B3", "B4"}
NotJson == "<html>"
Truncated == "<read failed>"
ResponseBodies == Bodies \cup {NotJson, Truncated}

\* request.rs:66  res.json().await
JsonParses(b) == b \in Bodies
\* request.rs:71,90  res.text().await
TextReads(b) == b # Truncated

\* Positions of the call.
\*   start  before line 40          loop  at `while attempt <= attempts_limit`
\*   send   awaiting request.send() json  awaiting res.json()
\*   text   awaiting res.text()     sleep awaiting sleep(wait_delay)
\*   done   returned                idle  no call is running
RequestPcs == {"idle", "start", "loop", "send", "json", "text", "sleep", "done"}

NoResponse == [status |-> 0, url |-> "-", body |-> "-"]
Response(s, u, b) == [status |-> s, url |-> u, body |-> b]

NoResult == [kind |-> "none", error |-> "-", json |-> "-", url |-> "-",
             status |-> 0, method |-> "-"]
\* request.rs:67  return Ok(json)
OkResult(j) == [NoResult EXCEPT !.kind = "Ok", !.json = j]
\* request.rs:46  .build()?
ClientBuildErr == [NoResult EXCEPT !.kind = "Err", !.error = "ClientBuild"]
\* request.rs:48  Url::parse(..)?
UrlParseErr == [NoResult EXCEPT !.kind = "Err", !.error = "UrlParse"]
\* request.rs:60  "The method <{}> is not supported."
UnsupportedMethodErr(m) ==
    [NoResult EXCEPT !.kind = "Err", !.error = "UnsupportedMethod", !.method = m]
\* request.rs:66,71,90  res.json().await? / res.text().await?
BodyErr == [NoResult EXCEPT !.kind = "Err", !.error = "Body"]
\* request.rs:78-82  "URL: {} Status: {} | Can't process request."
GatewayTimeoutErr(r) ==
    [NoResult EXCEPT !.kind = "Err", !.error = "GatewayTimeout",
                     !.url = r.url, !.status = r.status]
\* request.rs:105  "Attempts reached. Check URL: {}"
AttemptsReachedErr(u) ==
    [NoResult EXCEPT !.kind = "Err", !.error = "AttemptsReached", !.url = u]

\* A variant of CanAttempt that is off by one.
CanAttempt_OffByOne(a) == a <= attempts_limit + 1
\* request.rs:51  the loop condition
CanAttempt(a) == a <= attempts_limit

\* A variant of StatusClass with the GATEWAY_TIMEOUT arm missing: 504 falls
\* to the `_ =>` arm.
StatusClass_No504(s) ==
    CASE s = 200 -> "ok"
      [] s \in {404, 429} -> "retry_error"
      [] OTHER -> "retry_warn"
\* request.rs:64-97  the arms of `match res.status()`
StatusClass(s) ==
    CASE s = 200 -> "ok"
      [] s \in {404, 429} -> "retry_error"
      [] s = 504 -> "fatal"
      [] OTHER -> "retry_warn"

\* Responses handled so far that were retried: every one was logged.
retried == errors_logged + warnings_logged
\* Attempts so far that ended in a retryable failure.
failed_attempts == transport_errors + retried

(***************************************************************************)
(*       HistoricalData::calculate_covariance: data and arithmetic        *)
(***************************************************************************)

\* Calendar dates (NaiveDate) of the lookback window, as day numbers.
MaxDate == 4
Dates == 1..MaxDate

\* Closing prices (f64), integer-valued so that the arithmetic is exact.
MaxPrice == 2
Prices == 1..MaxPrice

\* data.rs:90,92  HashMap<NaiveDate, f64>: at most one price per date.
EmptySeries == [d \in {} |-> 0]
SeriesSet == UNION {[D -> Prices] : D \in SUBSET Dates}

\* data.rs:27-32  enum Token
Tokens == {"Bitcoin", "Ethereum", "Solana", "Snp500"}
\* The argument pairs tried: Solana is the token whose as_string differs
\* from its name.
TokenPairs == {<<"Solana", "Snp500">>}

\* data.rs:65-72  Token::as_string
as_string(t) ==
    CASE t = "Ethereum" -> "Ethereum"
      [] t = "Bitcoin" -> "Bitcoin"
      [] t = "Solana" -> "SOL-USD"
      [] t = "Snp500" -> "Snp500"

\* data.rs:208-248  what get_yearly_data_by_token(token) can come to: Ok with
\* a series; the executor's error passed on by `?` (line 215); the error of
\* line 243 naming the token; or a panic (the unwraps of lines 226 and 230,
\* the index of line 238).
NoFetch ==
    [kind |-> "none", error |-> "-", token |-> "-", data |-> EmptySeries,
     request |-> NoResult]
FetchOk(d) == [NoFetch EXCEPT !.kind = "Ok", !.data = d]
FetchRequestErr == [NoFetch EXCEPT !.kind = "Err", !.error = "Request"]
\* data.rs:215  `?`: the executor's error r is the fetcher's error.
FetchRequestErrOf(r) == [FetchRequestErr EXCEPT !.request = r]
FetchNoCloseErr(t) ==
    [NoFetch EXCEPT !.kind = "Err", !.error = "NotPossibleToFetch",
                    !.token = as_string(t)]
FetchPanic == [NoFetch EXCEPT !.kind = "Panic"]
FetchOutcomes(t) ==
    {FetchOk(d) : d \in SeriesSet} \cup {FetchRequestErr, FetchNoCloseErr(t), FetchPanic}

\* Exact fractions in lowest terms stand for the f64 values of the
\* computation (no rounding); every denominator here is a positive count.
Abs(n) == IF n < 0 THEN -n ELSE n
RECURSIVE GCD(_, _)
GCD(a, b) == IF b = 0 THEN a ELSE GCD(b, a % b)
Rat(n, d) ==
    LET g == GCD(Abs(n), d)
    IN [num |-> n \div g, den |-> d \div g]
RatSub(x, y) == Rat(x.num * y.den - y.num * x.den, x.den * y.den)
RatAdd(x, y) == Rat(x.num * y.den + y.num * x.den, x.den * y.den)
RatMul(x, y) == Rat(x.num * y.num, x.den * y.den)
RatDivInt(x, n) == Rat(x.num, x.den * n)
RatEq(x, y) == x.num * y.den = y.num * x.den

\* data.rs:128  token_1_data.values().sum::<f64>()
RECURSIVE SumValues(_, _)
SumValues(data, D) ==
    IF D = {} THEN 0
    ELSE LET d == CHOOSE x \in D : TRUE
         IN data[d] + SumValues(data, D \ {d})

\* data.rs:128-129  values().sum() / len() as f64
MeanOfAll(data) == Rat(SumValues(data, DOMAIN data), Cardinality(DOMAIN data))

\* data.rs:131-138  common_dates.iter().map(|date| ..).sum::<f64>()
RECURSIVE SumProducts(_, _, _, _, _)
SumProducts(d1, m1, d2, m2, D) ==
    IF D = {} THEN Rat(0, 1)
    ELSE LET d == CHOOSE x \in D : TRUE
         IN RatAdd(RatMul(RatSub(Rat(d1[d], 1), m1), RatSub(Rat(d2[d], 1), m2)),
                   SumProducts(d1, m1, d2, m2, D \ {d}))

\* data.rs:102,104  HashMap::retain(|date, _| other.contains_key(date))
Retain(data, other) ==
    [d \in {x \in DOMAIN data : x \in DOMAIN other} |-> data[d]]

\* A variant of Trimmed1 that trims the first series whatever the sizes.
Trimmed1_Always(d1, d2) == Retain(d1, d2)

\* data.rs:95-106  token_1_data after the trimming step
Trimmed1(d1, d2) ==
    IF Cardinality(DOMAIN d1) > Cardinality(DOMAIN d2) THEN Retain(d1, d2) ELSE d1

\* A variant of Trimmed2 that trims the second series whatever the sizes.
Trimmed2_Always(d1, d2) == Retain(d2, d1)

\* data.rs:95-106  token_2_data after the trimming step
Trimmed2(d1, d2) ==
    IF Cardinality(DOMAIN d1) < Cardinality(DOMAIN d2) THEN Retain(d2, d1) ELSE d2

\* data.rs:108-112  keys of token_1_data that token_2_data contains
CommonDates(d1, d2) == {d \in DOMAIN d1 : d \in DOMAIN d2}

\* data.rs:86-89,165-170  the values calculate_covariance returns.  The
\* correlation coefficient is covariance / sqrt(variance_1 * variance_2).
NoCovResult ==
    [kind |-> "none", error |-> "-", token_1 |-> "-", token_2 |-> "-",
     covariance |-> Rat(0, 1), variance_1 |-> Rat(0, 1), variance_2 |-> Rat(0, 1),
     request |-> NoResult]
\* data.rs:91,93  the fetch's error, passed on by `?`
CovFetchErr(f) ==
    [NoCovResult EXCEPT !.kind = "Err", !.error = f.error, !.token_1 = f.token,
                        !.request = f.request]
\* data.rs:115-117  "No common timestamps found between the two tokens."
NoCommonErr == [NoCovResult EXCEPT !.kind = "Err", !.error = "NoCommonTimestamps"]
\* data.rs:121-125  "The historical data amount from token_1<{}> is not
\* equal to token_2<{}>."
NotEqualErr(t1, t2) ==
    [NoCovResult EXCEPT !.kind = "Err", !.error = "AmountNotEqual",
                        !.token_1 = as_string(t1), !.token_2 = as_string(t2)]
\* data.rs:165-170
CovOk(t1, t2, c, v1, v2) ==
    [NoCovResult EXCEPT !.kind = "Ok", !.token_1 = t1, !.token_2 = t2,
                        !.covariance = c, !.variance_1 = v1, !.variance_2 = v2]

\* A variant of AlignOutcome that compares the lengths before it looks for
\* common dates.
AlignOutcome_LengthFirst(d1, d2) ==
    IF Cardinality(DOMAIN d1) # Cardinality(DOMAIN d2) THEN "AmountNotEqual"
    ELSE IF CommonDates(d1, d2) = {} THEN "NoCommonTimestamps"
    ELSE "Aligned"
\* A variant of AlignOutcome without the comparison of the lengths.
AlignOutcome_NoLengthCheck(d1, d2) ==
    IF CommonDates(d1, d2) = {} THEN "NoCommonTimestamps" ELSE "Aligned"
\* data.rs:108-126  what the checks after the trimming step decide
AlignOutcome(d1, d2) ==
    IF CommonDates(d1, d2) = {} THEN "NoCommonTimestamps"
    ELSE IF Cardinality(DOMAIN d1) # Cardinality(DOMAIN d2) THEN "AmountNotEqual"
    ELSE "Aligned"

\* data.rs:128-139  let covariance
Covariance(d1, d2, common) ==
    RatDivInt(SumProducts(d1, MeanOfAll(d1), d2, MeanOfAll(d2), common),
              Cardinality(common))

\* data.rs:142-160  the radicands of std_dev1 and std_dev2
Variance1(d1, common) ==
    RatDivInt(SumProducts(d1, MeanOfAll(d1), d1, MeanOfAll(d1), common),
              Cardinality(common))
Variance2(d2, common) ==
    RatDivInt(SumProducts(d2, MeanOfAll(d2), d2, MeanOfAll(d2), common),
              Cardinality(common))

(***************************************************************************)
(*               HistoricalData::get_yearly_data_by_token: data            *)
(***************************************************************************)

\* Bounds of the upstream documents explored.
MaxArr == 3
MaxDay == 2

\* chrono: a calendar day has 86400 seconds (date_naive of a UTC time).
SecondsPerDay == 86400

\* A JSON array element that is not a number (null): as_f64() and as_i64()
\* give None for it (data.rs:221, 230).
Null == -1

\* The elements of the close array and of the timestamp array: the
\* timestamps are the midnights of the days explored and one instant late
\* in the first day.
CloseValues == Prices \cup {Null}
Days == 1..MaxDay
TimestampValues ==
    {d * SecondsPerDay : d \in Days} \cup {2 * SecondsPerDay - 1} \cup {Null}

ArraysOf(S) == UNION {[1..n -> S] : n \in 0..MaxArr}

\* The part of the upstream document the fetcher reads:
\* chart.result[0].indicators.quote[0].close and chart.result[0].timestamp,
\* each an array or not there.
NoDocument ==
    [has_close |-> FALSE, close |-> <<>>, has_timestamp |-> FALSE,
     timestamp |-> <<>>]
Documents ==
    {[has_close |-> TRUE, close |-> c, has_timestamp |-> TRUE, timestamp |-> t] :
        c \in ArraysOf(CloseValues), t \in ArraysOf(TimestampValues)}
    \cup {[NoDocument EXCEPT !.has_close = TRUE, !.close = c] :
            c \in ArraysOf(CloseValues)}
    \cup {[NoDocument EXCEPT !.has_timestamp = TRUE, !.timestamp = t] :
            t \in ArraysOf(TimestampValues)}
    \cup {NoDocument}

\* What the fetcher's call of Request::process_request (GET on a URL that
\* parses, data.rs:211-215) can return: a document, or one of the
\* executor's errors.
RequestOk(doc) == [kind |-> "Ok", error |-> NoResult, json |-> doc]
RequestErr(r) == [kind |-> "Err", error |-> r, json |-> NoDocument]
NoRequestReturn == [kind |-> "none", error |-> NoResult, json |-> NoDocument]
RequestFailures ==
    {ClientBuildErr, BodyErr, AttemptsReachedErr(GoodUrl),
     GatewayTimeoutErr(Response(504, GoodUrl, "B1"))}
RequestReturns ==
    {RequestOk(doc) : doc \in Documents} \cup {RequestErr(r) : r \in RequestFailures}

\* The documents the JSON bodies of the executor stand for: two with both
\* arrays, one without the close array, one without the timestamp array.
DocumentOf(b) ==
    CASE b = "B1" ->
           [has_close |-> TRUE, close |-> <<1, 2>>, has_timestamp |-> TRUE,
            timestamp |-> <<SecondsPerDay, 2 * SecondsPerDay>>]
      [] b = "B2" ->
           [has_close |-> TRUE, close |-> <<2, 1>>, has_timestamp |-> TRUE,
            timestamp |-> <<SecondsPerDay, 2 * SecondsPerDay>>]
      [] b = "B3" ->
           [NoDocument EXCEPT !.has_timestamp = TRUE,
                              !.timestamp = <<SecondsPerDay>>]
      [] b = "B4" -> [NoDocument EXCEPT !.has_close = TRUE, !.close = <<1>>]

\* data.rs:215  the value of Request::process_request(..).await as the
\* fetcher sees it.
RequestReturnOf(r) ==
    IF r.kind = "Ok" THEN RequestOk(DocumentOf(r.json)) ELSE RequestErr(r)

\* data.rs:219-222  data.iter().filter_map(|v| v.as_f64()).collect()
filter_map(data) == SelectSeq(data, LAMBDA v : v # Null)

\* data.rs:231-232  DateTime::from_timestamp(secs, 0).date_naive()
date_naive(secs) == secs \div SecondsPerDay

\* data.rs:226-234  the dates of the timestamp array, in its order.
DatesOf(ts) == [i \in 1..Len(ts) |-> date_naive(ts[i])]

\* data.rs:236-239  for (i, v) in filtered_data.iter().enumerate()
\*                      { final_hashset.insert(timestamp[i], *v); }
\* an insert under a date already there replaces the value.
Inserted(values, dates) ==
    LET At(d) == {i \in 1..Len(values) : dates[i] = d}
        Last(d) == CHOOSE i \in At(d) : \A j \in At(d) : j <= i
    IN [d \in {dates[i] : i \in 1..Len(values)} |-> values[Last(d)]]

\* data.rs:217-247  the document read: the error of line 243 when there is
\* no close array; a panic when there is no timestamp array (unwrap of line
\* 226), when a timestamp is not an integer (unwrap of line 230) or when
\* there are more prices than timestamps (timestamp[i] of line 238).
ParseDocument(t, doc) ==
    IF ~doc.has_close THEN FetchNoCloseErr(t)
    ELSE IF ~doc.has_timestamp THEN FetchPanic
    ELSE IF \E i \in 1..Len(doc.timestamp) : doc.timestamp[i] = Null
         THEN FetchPanic
    ELSE IF Len(filter_map(doc.close)) > Len(doc.timestamp) THEN FetchPanic
    ELSE FetchOk(Inserted(filter_map(doc.close), DatesOf(doc.timestamp)))

\* data.rs:208-248  get_yearly_data_by_token(token) on what the executor
\* returned.
GetYearlyData(t, r) ==
    IF r.kind = "Err" THEN FetchRequestErrOf(r.error)
    ELSE ParseDocument(t, r.json)

\* The instruments a fetch is explored for.
FetchTokens == {"Solana", "Bitcoin"}

\* No call of get_yearly_data_by_token is running.
FetchIdle ==
    /\ fpc = "idle"
    /\ f_token = "-"
    /\ f_res = NoRequestReturn
    /\ filtered_data = <<>>
    /\ timestamp = <<>>
    /\ fetch_outcome = NoFetch

(***************************************************************************)
(*           HistoricalData::calculate_realized_volatility: data           *)
(***************************************************************************)

\* Bound of the price sequences calculate_log_returns is applied to.
MaxLen == 5
PriceSeqs == UNION {[1..n -> Prices] : n \in 0..MaxLen}

\* data.rs:279  (p2 / p1).ln(): the logarithm is kept as a term over its
\* exact argument, so two log returns are equal exactly when their price
\* ratios are.
ln(x) == [ln |-> x]

\* What calculate_log_returns returns: the values, or the error of line 273.
NoLogReturns == [kind |-> "none", error |-> "-", values |-> <<>>]
LogReturnsOk(v) == [NoLogReturns EXCEPT !.kind = "Ok", !.values = v]
NotEnoughPointsErr ==
    [NoLogReturns EXCEPT !.kind = "Err", !.error = "NotEnoughPricePoints"]

\* A variant of calculate_log_returns that divides the earlier price by the
\* later one.
calculate_log_returns_Inverted(p) ==
    IF Len(p) < 2 THEN NotEnoughPointsErr
    ELSE LogReturnsOk([i \in 1..(Len(p) - 1) |-> ln(Rat(p[i], p[i + 1]))])

\* data.rs:271-285  calculate_log_returns: prices.windows(2) mapped to
\* (p2 / p1).ln()
calculate_log_returns(p) ==
    IF Len(p) < 2 THEN NotEnoughPointsErr
    ELSE LogReturnsOk([i \in 1..(Len(p) - 1) |-> ln(Rat(p[i + 1], p[i]))])

\* What calculate_realized_volatility returns.  The number of an Ok is kept
\* as a term: the annualised deviation of the log returns in `of`.
NoVolResult ==
    [kind |-> "none", error |-> "-", fetch |-> NoFetch, of |-> <<>>]
VolFetchErr(f) == [NoVolResult EXCEPT !.kind = "Err", !.error = "Fetch", !.fetch = f]
NoPriceDataErr == [NoVolResult EXCEPT !.kind = "Err", !.error = "NoPriceData"]
VolLogReturnsErr(l) == [NoVolResult EXCEPT !.kind = "Err", !.error = l.error]
NoLogReturnsErr == [NoVolResult EXCEPT !.kind = "Err", !.error = "NoLogReturns"]
VolOk(v) == [NoVolResult EXCEPT !.kind = "Ok", !.of = v]

\* data.rs:296-311  calculate_standard_deviation
calculate_standard_deviation(v) ==
    IF v = <<>> THEN NoLogReturnsErr ELSE VolOk(v)

\* data.rs:189  price_data.keys().collect(): a HashMap gives its keys in an
\* order of its own; every order is possible.
KeyOrders(data) ==
    {s \in [1..Cardinality(DOMAIN data) -> DOMAIN data] :
        \A i, j \in DOMAIN s : s[i] = s[j] => i = j}

\* A variant of sort that leaves the sequence as it is.
sort_Skipped(s) == s

\* data.rs:190  sorted_dates.sort()
RECURSIVE sort(_)
sort(s) ==
    IF s = <<>> THEN s
    ELSE LET x == Head(s)
             rest == sort(Tail(s))
         IN SelectSeq(rest, LAMBDA y : y < x) \o <<x>>
                \o SelectSeq(rest, LAMBDA y : y >= x)

\* data.rs:192  sorted_dates.iter().map(|date| price_data[date]).collect()
PricesAt(data, dates) == [i \in 1..Len(dates) |-> data[dates[i]]]

\* No call of calculate_realized_volatility or of calculate_log_returns is
\* running.
VolIdle ==
    /\ vpc = "idle"
    /\ v_token = "-"
    /\ price_data = NoFetch
    /\ key_order = <<>>
    /\ sorted_dates = <<>>
    /\ prices = <<>>
    /\ log_returns = NoLogReturns
    /\ vol_result = NoVolResult

(***************************************************************************)
(*                      server.rs: the handlers' data                      *)
(***************************************************************************)

Endpoints == {"/covariance", "/volatility"}

\* A query parameter as serde gives it to the handler: Option<String>.
Missing == [present |-> FALSE, value |-> ""]
Param(v) == [present |-> TRUE, value |-> v]

\* The parameter values tried.
ParamValues == {"btc", "BTC", "snp", "SNP", "Solana", "eth", "foo", ""}
ParamOptions == {Missing} \cup {Param(v) : v \in ParamValues}

\* server.rs:5-14  CovarianceQuery, VolatilityQuery
NoQuery == [token_1 |-> Missing, token_2 |-> Missing, token |-> Missing]
Queries(e) ==
    IF e = "/covariance"
    THEN {[NoQuery EXCEPT !.token_1 = a, !.token_2 = b] :
            a \in ParamOptions, b \in ParamOptions}
    ELSE {[NoQuery EXCEPT !.token = a] : a \in ParamOptions}

\* data.rs:55  token.to_lowercase(), on the values tried.
to_lowercase(s) ==
    CASE s = "BTC" -> "btc"
      [] s = "SNP" -> "snp"
      [] s = "Solana" -> "solana"
      [] OTHER -> s

\* data.rs:54-62  Token::from_str; "-" stands for None.
from_str(s) ==
    CASE to_lowercase(s) \in {"bitcoin", "btc"} -> "Bitcoin"
      [] to_lowercase(s) \in {"snp500", "snp"} -> "Snp500"
      [] to_lowercase(s) \in {"solana", "sol"} -> "Solana"
      [] to_lowercase(s) \in {"ethereum", "eth"} -> "Ethereum"
      [] OTHER -> "-"

\* What the awaited computation comes to: a value returned (Ok or Err), or
\* a panic of the fetcher (data.rs:226, 230, 238) unwinding through it.
NoComputation == [kind |-> "none", value |-> NoCovResult]
Returned(v) == [kind |-> v.kind, value |-> v]
Panicked == [kind |-> "Panic", value |-> NoCovResult]

\* data.rs:86-171  values calculate_covariance returns.
CovarianceReturns(t1, t2) ==
    {CovOk(t1, t2, Rat(1, 2), Rat(1, 1), Rat(1, 1)), NoCommonErr,
     NotEqualErr(t1, t2), CovFetchErr(FetchRequestErr),
     CovFetchErr(FetchNoCloseErr(t1))}

\* data.rs:182-197  values calculate_realized_volatility returns.
VolatilityReturns(t) ==
    {VolOk(<<ln(Rat(2, 1))>>), NoPriceDataErr,
     VolLogReturnsErr(NotEnoughPointsErr), VolFetchErr(FetchNoCloseErr(t))}

\* The responses of the handlers.  A panic of the handler's future leaves
\* the request without a response.
NoHttpResponse ==
    [status |-> 0, text |-> "-", param |-> "-", given |-> "-",
     value |-> NoCovResult]
MissingParameter(p) ==
    [NoHttpResponse EXCEPT !.status = 400, !.text = "Missing query parameter",
                           !.param = p]
InvalidValue(p, v) ==
    [NoHttpResponse EXCEPT !.status = 400, !.text = "Invalid value",
                           !.param = p, !.given = v]
OkJson(v) == [NoHttpResponse EXCEPT !.status = 200, !.text = "json", !.value = v]
InternalServerError(e) ==
    [NoHttpResponse EXCEPT !.status = 500, !.text = "err.to_string()", !.value = e]

\* No request is being handled.
SrvIdle ==
    /\ spc = "idle"
    /\ endpoint = "-"
    /\ query = NoQuery
    /\ computation = NoComputation
    /\ computations = 0
    /\ http_response = NoHttpResponse

(***************************************************************************)
(*         Two concurrent calls of Request::process_request: data          *)
(***************************************************************************)

\* The two calls, each a future of its own on the runtime.
Runs == {1, 2}

\* request.rs:40-49  the state of one call: its position, its local
\* `attempt`, the value it returned, and what it did and met so far (sends,
\* sleeps, transport failures, retried HTTP responses whose body was read).
NoRun ==
    [pc |-> "idle", attempt |-> 0, result |-> NoResult, sends |-> 0,
     sleeps |-> 0, transport |-> 0, retried |-> 0]
\* request.rs:40-49  a call that built its client and parsed its URL.
EnteredRun == [NoRun EXCEPT !.pc = "loop", !.attempt = 1]

\* No two calls are running.
RunsIdle == runs = [r \in Runs |-> NoRun]

\* No call of the other entry points is running.
ExtIdle == FetchIdle /\ VolIdle /\ SrvIdle /\ RunsIdle

\* No call of calculate_covariance is running.
CovIdle ==
    /\ cpc = "idle"
    /\ token_1 = "-"
    /\ token_2 = "-"
    /\ fetched_1 = NoFetch
    /\ fetched_2 = NoFetch
    /\ token_1_data = EmptySeries
    /\ token_2_data = EmptySeries
    /\ common_dates = {}
    /\ cov_result = NoCovResult

\* No call of process_request is running.
ReqIdle ==
    /\ method = "-"
    /\ url = "-"
    /\ pc = "idle"
    /\ attempt = 0
    /\ res = NoResponse
    /\ result = NoResult
    /\ sends = 0
    /\ sleeps = 0
    /\ transport_errors = 0
    /\ errors_logged = 0
    /\ warnings_logged = 0

(***************************************************************************)
(*                  Request::process_request: the call                     *)
(***************************************************************************)

\* request.rs:34-42  the call is entered with its arguments; the locals of
\* lines 40-42 are set.
InitRequest ==
    /\ method \in Methods
    /\ url \in Urls
    /\ pc = "start"
    /\ attempt = 1
    /\ res = NoResponse
    /\ result = NoResult
    /\ sends = 0
    /\ sleeps = 0
    /\ transport_errors = 0
    /\ errors_logged = 0
    /\ warnings_logged = 0
    /\ CovIdle
    /\ ExtIdle

\* request.rs:44-46  reqwest::Client::builder()...build()? fails.
ClientBuildFails ==
    /\ pc = "start"
    /\ result' = ClientBuildErr
    /\ pc' = "done"
    /\ UNCHANGED <<method, url, attempt, res, sends, sleeps, transport_errors,
                   errors_logged, warnings_logged>>
    /\ UNCHANGED <<covVars, extVars>>

\* request.rs:48  the client is built and Url::parse(..)? fails.
UrlParseFails ==
    /\ pc = "start"
    /\ ~UrlParses(url)
    /\ result' = UrlParseErr
    /\ pc' = "done"
    /\ UNCHANGED <<method, url, attempt, res, sends, sleeps, transport_errors,
                   errors_logged, warnings_logged>>
    /\ UNCHANGED <<covVars, extVars>>

\* request.rs:44-49  client built, URL parsed, headers defaulted.
Setup ==
    /\ pc = "start"
    /\ UrlParses(url)
    /\ pc' = "loop"
    /\ UNCHANGED <<method, url, attempt, res, result, sends, sleeps,
                   transport_errors, errors_logged, warnings_logged>>
    /\ UNCHANGED <<covVars, extVars>>

\* request.rs:51,105  the loop condition fails: the attempts are used up.
AttemptsReached ==
    /\ pc = "loop"
    /\ ~CanAttempt(attempt)
    /\ result' = AttemptsReachedErr(url)
    /\ pc' = "done"
    /\ UNCHANGED <<method, url, attempt, res, sends, sleeps, transport_errors,
                   errors_logged, warnings_logged>>
    /\ UNCHANGED <<covVars, extVars>>

\* request.rs:52,60  `_ => return Err(..)`: neither GET nor POST.
RejectMethod ==
    /\ pc = "loop"
    /\ CanAttempt(attempt)
    /\ ~SupportedMethod(method)
    /\ result' = UnsupportedMethodErr(method)
    /\ pc' = "done"
    /\ UNCHANGED <<method, url, attempt, res, sends, sleeps, transport_errors,
                   errors_logged, warnings_logged>>
    /\ UNCHANGED <<covVars, extVars>>

\* A variant of Send that waits the delay before it sends.
Send_SleepsFirst ==
    /\ pc = "loop"
    /\ CanAttempt(attempt)
    /\ SupportedMethod(method)
    /\ sleeps' = sleeps + 1
    /\ sends' = sends + 1
    /\ pc' = "send"
    /\ UNCHANGED <<method, url, attempt, res, result, transport_errors,
                   errors_logged, warnings_logged>>
    /\ UNCHANGED <<covVars, extVars>>

\* request.rs:52-63  the request is built and request.send() is called.
Send ==
    /\ pc = "loop"
    /\ CanAttempt(attempt)
    /\ SupportedMethod(method)
    /\ sends' = sends + 1
    /\ pc' = "send"
    /\ UNCHANGED <<method, url, attempt, res, result, sleeps, transport_errors,
                   errors_logged, warnings_logged>>
    /\ UNCHANGED <<covVars, extVars>>

\* A variant of SendFails that waits the delay like the HTTP arms do.
SendFails_Sleeps ==
    /\ pc = "send"
    /\ transport_errors' = transport_errors + 1
    /\ sleeps' = sleeps + 1
    /\ pc' = "sleep"
    /\ UNCHANGED <<method, url, attempt, res, result, sends, errors_logged,
                   warnings_logged>>
    /\ UNCHANGED <<covVars, extVars>>
\* A variant of SendFails that forgets `attempt += 1`.
SendFails_NoIncrement ==
    /\ pc = "send"
    /\ transport_errors' = transport_errors + 1
    /\ pc' = "loop"
    /\ UNCHANGED <<method, url, attempt, res, result, sends, sleeps,
                   errors_logged, warnings_logged>>
    /\ UNCHANGED <<covVars, extVars>>
\* request.rs:98-101  Err(_): connection error or timeout.
SendFails ==
    /\ pc = "send"
    /\ transport_errors' = transport_errors + 1
    /\ attempt' = attempt + 1
    /\ pc' = "loop"
    /\ UNCHANGED <<method, url, res, result, sends, sleeps, errors_logged,
                   warnings_logged>>
    /\ UNCHANGED <<covVars, extVars>>

\* request.rs:64-65  Ok(res) with StatusCode::OK: res.json() is awaited.
ReceiveOk ==
    /\ pc = "send"
    /\ \E s \in Statuses, u \in ResponseUrls, b \in ResponseBodies :
          /\ StatusClass(s) = "ok"
          /\ res' = Response(s, u, b)
    /\ pc' = "json"
    /\ UNCHANGED <<method, url, attempt, result, sends, sleeps,
                   transport_errors, errors_logged, warnings_logged>>
    /\ UNCHANGED <<covVars, extVars>>

\* request.rs:70-71,85-90  Ok(res) with a retried status: res.text() is awaited.
ReceiveRetryable ==
    /\ pc = "send"
    /\ \E s \in Statuses, u \in ResponseUrls, b \in {NotJson, Truncated} :
          /\ StatusClass(s) \in {"retry_error", "retry_warn"}
          /\ res' = Response(s, u, b)
    /\ pc' = "text"
    /\ UNCHANGED <<method, url, attempt, result, sends, sleeps,
                   transport_errors, errors_logged, warnings_logged>>
    /\ UNCHANGED <<covVars, extVars>>

\* request.rs:77-83  Ok(res) with StatusCode::GATEWAY_TIMEOUT: return Err.
ReceiveGatewayTimeout ==
    /\ pc = "send"
    /\ \E s \in Statuses, u \in ResponseUrls, b \in {NotJson} :
          /\ StatusClass(s) = "fatal"
          /\ res' = Response(s, u, b)
    /\ result' = GatewayTimeoutErr(res')
    /\ pc' = "done"
    /\ UNCHANGED <<method, url, attempt, sends, sleeps, transport_errors,
                   errors_logged, warnings_logged>>
    /\ UNCHANGED <<covVars, extVars>>

\* request.rs:66-67  the body parses: return Ok(json).
JsonParsed ==
    /\ pc = "json"
    /\ JsonParses(res.body)
    /\ result' = OkResult(res.body)
    /\ pc' = "done"
    /\ UNCHANGED <<method, url, attempt, res, sends, sleeps, transport_errors,
                   errors_logged, warnings_logged>>
    /\ UNCHANGED <<covVars, extVars>>

\* A variant of JsonFails that treats the unparsable body as a failed
\* attempt: it waits the delay and tries again.
JsonFails_Retries ==
    /\ pc = "json"
    /\ ~JsonParses(res.body)
    /\ sleeps' = sleeps + 1
    /\ pc' = "sleep"
    /\ UNCHANGED <<method, url, attempt, res, result, sends, transport_errors,
                   errors_logged, warnings_logged>>
    /\ UNCHANGED <<covVars, extVars>>

\* request.rs:66  res.json().await? fails: the error is returned.
JsonFails ==
    /\ pc = "json"
    /\ ~JsonParses(res.body)
    /\ result' = BodyErr
    /\ pc' = "done"
    /\ UNCHANGED <<method, url, attempt, res, sends, sleeps, transport_errors,
                   errors_logged, warnings_logged>>
    /\ UNCHANGED <<covVars, extVars>>

\* A variant of TextRead that retries without waiting the delay.
TextRead_NoSleep ==
    /\ pc = "text"
    /\ TextReads(res.body)
    /\ IF StatusClass(res.status) = "retry_error"
          THEN /\ errors_logged' = errors_logged + 1
               /\ UNCHANGED warnings_logged
          ELSE /\ warnings_logged' = warnings_logged + 1
               /\ UNCHANGED errors_logged
    /\ attempt' = attempt + 1
    /\ res' = NoResponse
    /\ pc' = "loop"
    /\ UNCHANGED <<method, url, result, sends, sleeps, transport_errors>>
    /\ UNCHANGED <<covVars, extVars>>
\* request.rs:71-72,86-93  the body is read and logged (error! for 404 and
\* 429, warn! for the rest) and sleep(wait_delay) is called.
TextRead ==
    /\ pc = "text"
    /\ TextReads(res.body)
    /\ IF StatusClass(res.status) = "retry_error"
          THEN /\ errors_logged' = errors_logged + 1
               /\ UNCHANGED warnings_logged
          ELSE /\ warnings_logged' = warnings_logged + 1
               /\ UNCHANGED errors_logged
    /\ sleeps' = sleeps + 1
    /\ pc' = "sleep"
    /\ UNCHANGED <<method, url, attempt, res, result, sends, transport_errors>>
    /\ UNCHANGED <<covVars, extVars>>

\* request.rs:71,90  res.text().await? fails: the error is returned.
TextFails ==
    /\ pc = "text"
    /\ ~TextReads(res.body)
    /\ result' = BodyErr
    /\ pc' = "done"
    /\ UNCHANGED <<method, url, attempt, res, sends, sleeps, transport_errors,
                   errors_logged, warnings_logged>>
    /\ UNCHANGED <<covVars, extVars>>

\* request.rs:72-74,93-95  the sleep is over: attempt += 1; continue (the
\* response is dropped).
SleepDone ==
    /\ pc = "sleep"
    /\ attempt' = attempt + 1
    /\ res' = NoResponse
    /\ pc' = "loop"
    /\ UNCHANGED <<method, url, result, sends, sleeps, transport_errors,
                   errors_logged, warnings_logged>>
    /\ UNCHANGED <<covVars, extVars>>

NextRequest ==
    \/ ClientBuildFails
    \/ UrlParseFails
    \/ Setup
    \/ AttemptsReached
    \/ RejectMethod
    \/ Send
    \/ SendFails
    \/ ReceiveOk
    \/ ReceiveRetryable
    \/ ReceiveGatewayTimeout
    \/ JsonParsed
    \/ JsonFails
    \/ TextRead
    \/ TextFails
    \/ SleepDone

\* One call of Request::process_request.
SpecRequest == InitRequest /\ [][NextRequest]_vars

\* The same, where every awaited send, body read and sleep completes.
FairSpecRequest == SpecRequest /\ WF_vars(NextRequest)

(***************************************************************************)
(*             HistoricalData::calculate_covariance: the call              *)
(***************************************************************************)

\* Positions of the call.
\*   fetch_1  awaiting get_yearly_data_by_token(&token_1)   (line 91)
\*   fetch_2  awaiting get_yearly_data_by_token(&token_2)   (line 93)
\*   trim     at line 95      align  at line 108      compute  at line 128
\*   done     returned        panic  unwound          idle     no call
CovariancePcs ==
    {"idle", "fetch_1", "fetch_2", "trim", "align", "compute", "done", "panic"}

\* data.rs:86-89  the call is entered with its two tokens.
InitCovariance ==
    /\ cpc = "fetch_1"
    /\ \E tp \in TokenPairs :
          /\ token_1 = tp[1]
          /\ token_2 = tp[2]
    /\ fetched_1 = NoFetch
    /\ fetched_2 = NoFetch
    /\ token_1_data = EmptySeries
    /\ token_2_data = EmptySeries
    /\ common_dates = {}
    /\ cov_result = NoCovResult
    /\ ReqIdle
    /\ ExtIdle

\* data.rs:90-91  let mut token_1_data = get_yearly_data_by_token(&token_1).await?
FetchToken1 ==
    /\ cpc = "fetch_1"
    /\ \E f \in FetchOutcomes(token_1) :
          /\ fetched_1' = f
          /\ \/ /\ f.kind = "Ok"
                /\ token_1_data' = f.data
                /\ cpc' = "fetch_2"
                /\ UNCHANGED cov_result
             \/ /\ f.kind = "Err"
                /\ cov_result' = CovFetchErr(f)
                /\ cpc' = "done"
                /\ UNCHANGED token_1_data
             \/ /\ f.kind = "Panic"
                /\ cpc' = "panic"
                /\ UNCHANGED <<token_1_data, cov_result>>
    /\ UNCHANGED <<token_1, token_2, fetched_2, token_2_data, common_dates>>
    /\ UNCHANGED <<reqVars, extVars>>

\* data.rs:92-93  let mut token_2_data = get_yearly_data_by_token(&token_2).await?
FetchToken2 ==
    /\ cpc = "fetch_2"
    /\ \E f \in FetchOutcomes(token_2) :
          /\ fetched_2' = f
          /\ \/ /\ f.kind = "Ok"
                /\ token_2_data' = f.data
                /\ cpc' = "trim"
                /\ UNCHANGED cov_result
             \/ /\ f.kind = "Err"
                /\ cov_result' = CovFetchErr(f)
                /\ cpc' = "done"
                /\ UNCHANGED token_2_data
             \/ /\ f.kind = "Panic"
                /\ cpc' = "panic"
                /\ UNCHANGED <<token_2_data, cov_result>>
    /\ UNCHANGED <<token_1, token_2, fetched_1, token_1_data, common_dates>>
    /\ UNCHANGED <<reqVars, extVars>>

\* data.rs:95-106  if the lengths differ, the larger map keeps only the
\* dates the smaller one contains.
Trim ==
    /\ cpc = "trim"
    /\ token_1_data' = Trimmed1(token_1_data, token_2_data)
    /\ token_2_data' = Trimmed2(token_1_data, token_2_data)
    /\ cpc' = "align"
    /\ UNCHANGED <<token_1, token_2, fetched_1, fetched_2, common_dates, cov_result>>
    /\ UNCHANGED <<reqVars, extVars>>

\* data.rs:108-126  common_dates is collected; the call returns an error if
\* it is empty, and else if the two maps differ in length.
Align ==
    /\ cpc = "align"
    /\ common_dates' = CommonDates(token_1_data, token_2_data)
    /\ \/ /\ AlignOutcome(token_1_data, token_2_data) = "NoCommonTimestamps"
          /\ cov_result' = NoCommonErr
          /\ cpc' = "done"
       \/ /\ AlignOutcome(token_1_data, token_2_data) = "AmountNotEqual"
          /\ cov_result' = NotEqualErr(token_1, token_2)
          /\ cpc' = "done"
       \/ /\ AlignOutcome(token_1_data, token_2_data) = "Aligned"
          /\ cpc' = "compute"
          /\ UNCHANGED cov_result
    /\ UNCHANGED <<token_1, token_2, fetched_1, fetched_2, token_1_data, token_2_data>>
    /\ UNCHANGED <<reqVars, extVars>>

\* data.rs:128-170  means, covariance, standard deviations; return Ok.
Compute ==
    /\ cpc = "compute"
    /\ cov_result' = CovOk(token_1, token_2,
                           Covariance(token_1_data, token_2_data, common_dates),
                           Variance1(token_1_data, common_dates),
                           Variance2(token_2_data, common_dates))
    /\ cpc' = "done"
    /\ UNCHANGED <<token_1, token_2, fetched_1, fetched_2, token_1_data,
                   token_2_data, common_dates>>
    /\ UNCHANGED <<reqVars, extVars>>

NextCovariance ==
    \/ FetchToken1
    \/ FetchToken2
    \/ Trim
    \/ Align
    \/ Compute

\* One call of HistoricalData::calculate_covariance.
SpecCovariance == InitCovariance /\ [][NextCovariance]_vars

(***************************************************************************)
(*               Properties of Request::process_request                    *)
(***************************************************************************)

\* C1: when k retried HTTP responses (404, 429 or any status other than 200
\* and 504) and no transport failure are followed by a 200 response whose
\* body is the JSON document B, the call returns Ok(B) after exactly k+1
\* sends and k sleeps, for every k < 15.
C1_TransientThenOk ==
    (res.status = 200 /\ res.body \in Bodies /\ transport_errors = 0) =>
        /\ pc \in {"json", "done"}
        /\ retried < attempts_limit
        /\ sends = retried + 1
        /\ sleeps = retried
        /\ pc = "done" => (result.kind = "Ok" /\ result.json = res.body)

\* [429, 429, 200 with body B2] returned Ok(B2) after 3 sends and 2 sleeps.
C1_Witness ==
    /\ pc = "done"
    /\ result.kind = "Ok"
    /\ result.json = "B2"
    /\ res.status = 200
    /\ transport_errors = 0
    /\ errors_logged = 2
    /\ warnings_logged = 0
    /\ sends = 3
    /\ sleeps = 2

\* C2: a 504 response, at whatever attempt, ends the call at once with an
\* error carrying the response's URL and status: the send that got it is the
\* last one (one send per attempt so far) and no sleep follows it (as many
\* sleeps as responses retried before it).
C2_GatewayTimeoutFatal ==
    res.status = 504 =>
        /\ pc = "done"
        /\ result.kind = "Err"
        /\ result.error = "GatewayTimeout"
        /\ result.url = res.url
        /\ result.status = 504
        /\ attempt \in 1..attempts_limit
        /\ sends = attempt
        /\ sleeps = retried

\* A 504 on the first attempt: one send, no sleep, attempt 2 never reached.
C2_Witness ==
    /\ res.status = 504
    /\ pc = "done"
    /\ result.error = "GatewayTimeout"
    /\ attempt = 1
    /\ sends = 1
    /\ sleeps = 0

\* C3: no run issues a 16th send; a call whose 15 attempts all ended in a
\* retryable failure returns the attempts-reached error naming the URL, and
\* that error is returned in no other case.
C3_AttemptsBounded ==
    /\ sends <= attempts_limit
    /\ (pc = "done" /\ failed_attempts = attempts_limit) =>
          /\ result.kind = "Err"
          /\ result.error = "AttemptsReached"
          /\ result.url = url
    /\ result.error = "AttemptsReached" =>
          /\ failed_attempts = attempts_limit
          /\ sends = attempts_limit

\* 15 consecutive responses of an unnamed status (500, 403) used up the
\* attempts.
C3_Witness ==
    /\ pc = "done"
    /\ result.error = "AttemptsReached"
    /\ warnings_logged = attempts_limit
    /\ sends = attempts_limit

\* C4 as claimed: every call with a method other than GET and POST fails
\* with the method-not-supported error, without a send, a sleep or a used
\* attempt.
C4_Original ==
    (method \notin {"GET", "POST"} /\ pc = "done") =>
        /\ result.kind = "Err"
        /\ result.error = "UnsupportedMethod"
        /\ sends = 0
        /\ sleeps = 0
        /\ attempt = 1

\* C4 as amended: a call with a method other than GET and POST never sends,
\* never sleeps and uses no attempt; it fails with the method-not-supported
\* error naming the method whenever the client was built and the URL
\* parsed, and with that set-up error otherwise.
C4_UnsupportedMethod ==
    method \notin {"GET", "POST"} =>
        /\ sends = 0
        /\ sleeps = 0
        /\ attempt = 1
        /\ pc \in {"start", "loop", "done"}
        /\ pc = "done" =>
              /\ result.kind = "Err"
              /\ result.error \in {"UnsupportedMethod", "ClientBuild", "UrlParse"}
              /\ result.error = "UrlParse" => url = BadUrl
              /\ result.error = "UnsupportedMethod" =>
                    (url = GoodUrl /\ result.method = method)
              /\ (url = GoodUrl /\ result.error # "ClientBuild") =>
                    result.error = "UnsupportedMethod"

\* PUT with a URL that parses was rejected.
C4_Witness ==
    /\ method = "PUT"
    /\ url = GoodUrl
    /\ pc = "done"
    /\ result.error = "UnsupportedMethod"
    /\ result.method = "PUT"
    /\ sends = 0

\* C5: a send that fails in transport uses exactly one attempt and leads
\* back to the head of the loop with no sleep; from the head of the loop
\* the next step is the next send (or the return) with no sleep; so 15
\* consecutive transport failures end in the attempts-reached error with
\* zero sleeps.
C5_TransportNoSleep ==
    /\ [][transport_errors' # transport_errors =>
            /\ pc = "send"
            /\ transport_errors' = transport_errors + 1
            /\ attempt' = attempt + 1
            /\ sleeps' = sleeps
            /\ sends' = sends
            /\ pc' = "loop"]_vars
    /\ [][pc = "loop" => (pc' \in {"send", "done"} /\ sleeps' = sleeps)]_vars
    /\ [](sleeps <= retried)
    /\ []((pc = "done" /\ transport_errors = attempts_limit) =>
            (result.error = "AttemptsReached" /\ sleeps = 0))

\* 15 transport failures in a row: attempts reached, no sleep.
C5_Witness ==
    /\ pc = "done"
    /\ transport_errors = attempts_limit
    /\ result.error = "AttemptsReached"
    /\ sends = attempts_limit
    /\ sleeps = 0

\* C6 as claimed: a call that sent at least one request and finished ended
\* in one of three outcomes: success on a 200 response, the fatal failure on
\* a 504 response, or the attempts-reached failure.
C6_Original ==
    (pc = "done" /\ sends > 0) =>
        \/ result.kind = "Ok" /\ res.status = 200
        \/ result.error = "GatewayTimeout" /\ res.status = 504
        \/ result.error = "AttemptsReached"

\* The outcomes of a finished call, each with what caused it.
Outcome ==
    \/ /\ result.kind = "Ok"
       /\ res.status = 200
       /\ result.json = res.body
       /\ res.body \in Bodies
    \/ /\ result.kind = "Err"
       /\ result.error = "GatewayTimeout"
       /\ res.status = 504
    \/ /\ result.kind = "Err"
       /\ result.error = "AttemptsReached"
       /\ failed_attempts = attempts_limit
       /\ attempt = attempts_limit + 1
    \/ /\ result.kind = "Err"
       /\ result.error = "UnsupportedMethod"
       /\ method \notin {"GET", "POST"}
       /\ sends = 0
    \/ /\ result.kind = "Err"
       /\ result.error \in {"ClientBuild", "UrlParse"}
       /\ sends = 0
    \/ /\ result.kind = "Err"
       /\ result.error = "Body"
       /\ res.status # 504
       /\ res.body \notin Bodies

\* C6 as amended: when every send, body read and sleep completes, the call
\* terminates, and it ends in exactly one of: success on a 200 response
\* whose body parses, the fatal failure on a 504 response, the
\* attempts-reached failure after the 15th failed attempt, the
\* method-not-supported failure or a set-up failure (client, URL) before
\* any send, or the failure to read or parse a received response's body.
C6_Terminates ==
    /\ <>(pc = "done")
    /\ [](pc = "done" => Outcome)
    /\ [][pc = "done" => pc' = "done"]_vars

\* A call that ended on a body that is not JSON: none of the three outcomes.
C6_Witness ==
    /\ pc = "done"
    /\ method = "GET"
    /\ res.status = 200
    /\ res.body = NotJson
    /\ result.error = "Body"

(***************************************************************************)
(*          Properties of HistoricalData::calculate_covariance             *)
(***************************************************************************)

\* Both fetches returned a series.
BothFetched == fetched_1.kind = "Ok" /\ fetched_2.kind = "Ok"
\* The trimming step is over.
AfterTrim == BothFetched /\ cpc \in {"align", "compute", "done"}
\* The checks of the alignment passed: the computation runs on the two maps.
AlignmentSucceeded ==
    BothFetched /\ (cpc = "compute" \/ (cpc = "done" /\ cov_result.kind = "Ok"))

\* C7: whenever the alignment succeeds, the two series the computation uses
\* have the same key set, and as many entries each as the two fetched
\* series have dates in common.
C7_AlignedKeySets ==
    AlignmentSucceeded =>
        /\ DOMAIN token_1_data = DOMAIN token_2_data
        /\ Cardinality(DOMAIN token_1_data) = Cardinality(DOMAIN token_2_data)
        /\ Cardinality(DOMAIN token_1_data) =
              Cardinality(DOMAIN fetched_1.data \cap DOMAIN fetched_2.data)

\* C8: two fetched series with no date in common, whatever their sizes (one
\* or both may be empty), never reach the computation: the call returns the
\* no-common-timestamps error, never a result, never the unequal-amount
\* error.
C8_DisjointNoOverlap ==
    (BothFetched /\ DOMAIN fetched_1.data \cap DOMAIN fetched_2.data = {}) =>
        /\ cpc \in {"trim", "align", "done"}
        /\ cov_result.kind # "Ok"
        /\ cov_result.error # "AmountNotEqual"
        /\ cpc = "done" =>
              (cov_result.kind = "Err" /\ cov_result.error = "NoCommonTimestamps")

\* Disjoint series of two dates and of one date ended in the
\* no-common-timestamps error.
C8_Witness ==
    /\ cpc = "done"
    /\ BothFetched
    /\ Cardinality(DOMAIN fetched_1.data) = 2
    /\ Cardinality(DOMAIN fetched_2.data) = 1
    /\ DOMAIN fetched_1.data \cap DOMAIN fetched_2.data = {}
    /\ cov_result.error = "NoCommonTimestamps"

\* C9: whenever, after the trimming step, the two series share a date but
\* differ in size, the computation is not reached: the call returns the
\* unequal-amount error naming both tokens, and no result.
C9_UnequalAmount ==
    (/\ AfterTrim
     /\ CommonDates(token_1_data, token_2_data) # {}
     /\ Cardinality(DOMAIN token_1_data) # Cardinality(DOMAIN token_2_data)) =>
        /\ cpc \in {"align", "done"}
        /\ cov_result.kind # "Ok"
        /\ cpc = "done" =>
              /\ cov_result.kind = "Err"
              /\ cov_result.error = "AmountNotEqual"
              /\ cov_result.token_1 = as_string(token_1)
              /\ cov_result.token_2 = as_string(token_2)

\* Three dates against two, one of them outside the three: after the
\* trimming one date against two, and the unequal-amount error.
C9_Witness ==
    /\ cpc = "done"
    /\ Cardinality(DOMAIN fetched_1.data) = 3
    /\ Cardinality(DOMAIN fetched_2.data) = 2
    /\ Cardinality(DOMAIN token_1_data) = 1
    /\ Cardinality(DOMAIN token_2_data) = 2
    /\ cov_result.error = "AmountNotEqual"
    /\ cov_result.token_1 = "SOL-USD"
    /\ cov_result.token_2 = "Snp500"

\* The mean of a series over the dates D.
MeanOver(data, D) == Rat(SumValues(data, D), Cardinality(D))

\* The population covariance of two series over their common dates, the
\* means taken over those same dates.
PopulationCovariance(a, b) ==
    LET D == DOMAIN a \cap DOMAIN b
    IN RatDivInt(SumProducts(a, MeanOver(a, D), b, MeanOver(b, D), D),
                 Cardinality(D))

\* C10: the covariance of a returned result is the population covariance of
\* the two fetched series over their common dates, the means taken over
\* those same dates.
C10_PopulationCovariance ==
    (cpc = "done" /\ cov_result.kind = "Ok") =>
        RatEq(cov_result.covariance,
              PopulationCovariance(fetched_1.data, fetched_2.data))


(***************************************************************************)
(*            HistoricalData::get_yearly_data_by_token: the call           *)
(***************************************************************************)

FetchPcs == {"idle", "request", "parse", "done", "panic"}

\* data.rs:208-215  the call is entered; the executor is awaited.
InitFetch ==
    /\ fpc = "request"
    /\ f_token \in FetchTokens
    /\ f_res = NoRequestReturn
    /\ filtered_data = <<>>
    /\ timestamp = <<>>
    /\ fetch_outcome = NoFetch
    /\ ReqIdle
    /\ CovIdle
    /\ VolIdle
    /\ SrvIdle
    /\ RunsIdle

\* data.rs:215  Request::process_request(..).await returns.
RequestReturned ==
    /\ fpc = "request"
    /\ \E r \in RequestReturns : f_res' = r
    /\ fpc' = "parse"
    /\ UNCHANGED <<f_token, filtered_data, timestamp, fetch_outcome>>
    /\ UNCHANGED notFetchVars

\* data.rs:215  `?`: the executor's error is returned.
FetchRequestFailed ==
    /\ fpc = "parse"
    /\ f_res.kind = "Err"
    /\ fetch_outcome' = GetYearlyData(f_token, f_res)
    /\ fpc' = "done"
    /\ UNCHANGED <<f_token, f_res, filtered_data, timestamp>>
    /\ UNCHANGED notFetchVars

\* data.rs:217-247  the document is read and the call returns.
FetchParsed ==
    /\ fpc = "parse"
    /\ f_res.kind = "Ok"
    /\ GetYearlyData(f_token, f_res).kind # "Panic"
    /\ fetch_outcome' = GetYearlyData(f_token, f_res)
    /\ filtered_data' =
          IF f_res.json.has_close THEN filter_map(f_res.json.close) ELSE <<>>
    /\ timestamp' =
          IF f_res.json.has_close THEN DatesOf(f_res.json.timestamp) ELSE <<>>
    /\ fpc' = "done"
    /\ UNCHANGED <<f_token, f_res>>
    /\ UNCHANGED notFetchVars

\* data.rs:226, 230, 238  an unwrap of None or an index past the end: the
\* call panics and returns nothing.
FetchPanics ==
    /\ fpc = "parse"
    /\ f_res.kind = "Ok"
    /\ GetYearlyData(f_token, f_res).kind = "Panic"
    /\ fetch_outcome' = FetchPanic
    /\ filtered_data' = filter_map(f_res.json.close)
    /\ fpc' = "panic"
    /\ UNCHANGED <<f_token, f_res, timestamp>>
    /\ UNCHANGED notFetchVars

NextFetch ==
    \/ RequestReturned
    \/ FetchRequestFailed
    \/ FetchParsed
    \/ FetchPanics

SpecFetch == InitFetch /\ [][NextFetch]_vars

(***************************************************************************)
(*                    Claims about the fetcher                             *)
(***************************************************************************)

\* C11: whenever the document the executor returned has no close array or
\* no timestamp array, get_yearly_data_by_token returns an error value (it
\* does not crash), and when the close array is the missing one the error
\* names the instrument.
C11_MissingArraysFail ==
    (/\ fpc \in {"done", "panic"}
     /\ f_res.kind = "Ok"
     /\ (~f_res.json.has_close \/ ~f_res.json.has_timestamp))
    => /\ fpc = "done"
       /\ fetch_outcome.kind = "Err"
       /\ ~f_res.json.has_close =>
              /\ fetch_outcome.error = "NotPossibleToFetch"
              /\ fetch_outcome.token = as_string(f_token)

\* C18: for a close array and a timestamp array of equal length (the
\* timestamps on distinct days), the returned series holds every non-null
\* close value under the date of the timestamp at the same index, and has
\* no date from an entry whose close is null.
C18_IndexAligned ==
    LET close == f_res.json.close
        ts == f_res.json.timestamp
        held == {i \in 1..Len(close) : close[i] # Null}
    IN (/\ fpc = "done"
        /\ fetch_outcome.kind = "Ok"
        /\ Len(close) = Len(ts)
        /\ \A i, j \in 1..Len(ts) :
              date_naive(ts[i]) = date_naive(ts[j]) => i = j)
       => /\ DOMAIN fetch_outcome.data = {date_naive(ts[i]) : i \in held}
          /\ \A i \in held : fetch_outcome.data[date_naive(ts[i])] = close[i]

(***************************************************************************)
(*        HistoricalData::calculate_log_returns applied to a sequence      *)
(***************************************************************************)

\* data.rs:271  the function is entered with a price sequence.
InitLogReturns ==
    /\ vpc = "log_returns"
    /\ v_token = "-"
    /\ price_data = NoFetch
    /\ key_order = <<>>
    /\ sorted_dates = <<>>
    /\ prices \in PriceSeqs
    /\ log_returns = NoLogReturns
    /\ vol_result = NoVolResult
    /\ ReqIdle
    /\ CovIdle
    /\ FetchIdle
    /\ SrvIdle
    /\ RunsIdle

\* data.rs:271-285  the function returns.
CalculateLogReturns ==
    /\ vpc = "log_returns"
    /\ log_returns' = calculate_log_returns(prices)
    /\ vpc' = "log_returns_done"
    /\ UNCHANGED <<v_token, price_data, key_order, sorted_dates, prices,
                   vol_result>>
    /\ UNCHANGED notVolVars

NextLogReturns == CalculateLogReturns

SpecLogReturns == InitLogReturns /\ [][NextLogReturns]_vars

\* C12: calculate_log_returns gives the not-enough-points error for every
\* price sequence of length 0 or 1, and for a sequence of length n >= 2 it
\* gives n-1 values, the i-th being the logarithm of price[i+1] / price[i].
C12_LogReturns ==
    vpc = "log_returns_done" =>
        IF Len(prices) < 2
        THEN /\ log_returns.kind = "Err"
             /\ log_returns.error = "NotEnoughPricePoints"
        ELSE /\ log_returns.kind = "Ok"
             /\ Len(log_returns.values) = Len(prices) - 1
             /\ \A i \in 1..(Len(prices) - 1) :
                   /\ log_returns.values[i].ln.num * prices[i]
                        = log_returns.values[i].ln.den * prices[i + 1]
                   /\ log_returns.values[i].ln.den > 0

\* C12 happens: the three prices 1, 2, 1 gave the two log returns ln(2/1)
\* and ln(1/2).
C12_Witness ==
    /\ vpc = "log_returns_done"
    /\ prices = <<1, 2, 1>>
    /\ log_returns.kind = "Ok"
    /\ log_returns.values = <<ln(Rat(2, 1)), ln(Rat(1, 2))>>

(***************************************************************************)
(*         HistoricalData::calculate_realized_volatility: the call         *)
(***************************************************************************)

VolatilityPcs ==
    {"idle", "fetch", "compute", "done", "panic", "log_returns",
     "log_returns_done"}

\* The instrument a volatility is explored for.
VolTokens == {"Bitcoin"}

\* data.rs:182-183  the call is entered; the fetch is awaited.
InitVolatility ==
    /\ vpc = "fetch"
    /\ v_token \in VolTokens
    /\ price_data = NoFetch
    /\ key_order = <<>>
    /\ sorted_dates = <<>>
    /\ prices = <<>>
    /\ log_returns = NoLogReturns
    /\ vol_result = NoVolResult
    /\ ReqIdle
    /\ CovIdle
    /\ FetchIdle
    /\ SrvIdle
    /\ RunsIdle

\* data.rs:183  the fetch returned a series.
VolFetched ==
    /\ vpc = "fetch"
    /\ \E f \in FetchOutcomes(v_token) :
          /\ f.kind = "Ok"
          /\ price_data' = f
    /\ vpc' = "compute"
    /\ UNCHANGED <<v_token, key_order, sorted_dates, prices, log_returns,
                   vol_result>>
    /\ UNCHANGED notVolVars

\* data.rs:183  `?`: the fetch returned an error, which the call returns.
VolFetchFails ==
    /\ vpc = "fetch"
    /\ \E f \in FetchOutcomes(v_token) :
          /\ f.kind = "Err"
          /\ price_data' = f
          /\ vol_result' = VolFetchErr(f)
    /\ vpc' = "done"
    /\ UNCHANGED <<v_token, key_order, sorted_dates, prices, log_returns>>
    /\ UNCHANGED notVolVars

\* data.rs:183  the fetch panicked: the call returns nothing.
VolFetchPanics ==
    /\ vpc = "fetch"
    /\ FetchPanic \in FetchOutcomes(v_token)
    /\ price_data' = FetchPanic
    /\ vpc' = "panic"
    /\ UNCHANGED <<v_token, key_order, sorted_dates, prices, log_returns,
                   vol_result>>
    /\ UNCHANGED notVolVars

\* data.rs:185-187  price_data.is_empty()
VolNoData ==
    /\ vpc = "compute"
    /\ DOMAIN price_data.data = {}
    /\ vol_result' = NoPriceDataErr
    /\ vpc' = "done"
    /\ UNCHANGED <<v_token, price_data, key_order, sorted_dates, prices,
                   log_returns>>
    /\ UNCHANGED notVolVars

\* data.rs:189-196  the dates are collected and sorted, the prices read in
\* that order, the log returns and their deviation computed.
VolCompute ==
    /\ vpc = "compute"
    /\ DOMAIN price_data.data # {}
    /\ \E order \in KeyOrders(price_data.data) :
          LET sorted == sort(order)
              p == PricesAt(price_data.data, sorted)
              l == calculate_log_returns(p)
          IN /\ key_order' = order
             /\ sorted_dates' = sorted
             /\ prices' = p
             /\ log_returns' = l
             /\ vol_result' =
                   IF l.kind = "Err" THEN VolLogReturnsErr(l)
                   ELSE calculate_standard_deviation(l.values)
    /\ vpc' = "done"
    /\ UNCHANGED <<v_token, price_data>>
    /\ UNCHANGED notVolVars

NextVolatility ==
    \/ VolFetched
    \/ VolFetchFails
    \/ VolFetchPanics
    \/ VolNoData
    \/ VolCompute

SpecVolatility == InitVolatility /\ [][NextVolatility]_vars

\* C13: calculate_realized_volatility returns an error (never a number)
\* when the fetched series is empty or has a single date; when it returns a
\* number, the prices given to calculate_log_returns are the prices of all
\* the dates of the series in strictly ascending date order, whatever the
\* order in which the series gave its dates.
C13_VolatilityInput ==
    LET data == price_data.data
    IN /\ (/\ vpc = "done"
           /\ price_data.kind = "Ok"
           /\ Cardinality(DOMAIN data) <= 1)
          => /\ vol_result.kind = "Err"
             /\ vol_result.of = <<>>
       /\ (vpc = "done" /\ vol_result.kind = "Ok")
          => /\ Len(sorted_dates) = Cardinality(DOMAIN data)
             /\ {sorted_dates[i] : i \in 1..Len(sorted_dates)} = DOMAIN data
             /\ \A i, j \in 1..Len(sorted_dates) :
                   i < j => sorted_dates[i] < sorted_dates[j]
             /\ Len(prices) = Len(sorted_dates)
             /\ \A i \in 1..Len(prices) : prices[i] = data[sorted_dates[i]]
             /\ log_returns = calculate_log_returns(prices)
             /\ vol_result.of = log_returns.values

\* C13 happens: a series that gave its dates in the order 3, 1, 2 was
\* turned into prices in the order of the dates 1, 2, 3.
C13_Witness ==
    /\ vpc = "done"
    /\ vol_result.kind = "Ok"
    /\ key_order = <<3, 1, 2>>
    /\ sorted_dates = <<1, 2, 3>>
    /\ prices = <<1, 2, 1>>

\* C13 happens for a series with a single date: the call returned the
\* not-enough-points error.
C13_SingleDate ==
    /\ vpc = "done"
    /\ Cardinality(DOMAIN price_data.data) = 1
    /\ vol_result = VolLogReturnsErr(NotEnoughPointsErr)

(***************************************************************************)
(*               server.rs: get_covariance and get_volatility              *)
(***************************************************************************)

ServerPcs == {"idle", "handler", "computing", "done", "panic"}

\* A request reached a handler with its query extracted.
InitServer ==
    /\ spc = "handler"
    /\ endpoint \in Endpoints
    /\ query \in Queries(endpoint)
    /\ computation = NoComputation
    /\ computations = 0
    /\ http_response = NoHttpResponse
    /\ ReqIdle
    /\ CovIdle
    /\ FetchIdle
    /\ VolIdle
    /\ RunsIdle

\* The handler's frame when it answers without computing.
HandlerAnswers(r) ==
    /\ http_response' = r
    /\ spc' = "done"
    /\ UNCHANGED <<endpoint, query, computation, computations>>
    /\ UNCHANGED notSrvVars

\* The handler calls the computation and awaits it.
HandlerComputes ==
    /\ computations' = computations + 1
    /\ spc' = "computing"
    /\ UNCHANGED <<endpoint, query, computation, http_response>>
    /\ UNCHANGED notSrvVars

\* server.rs:46-49, 66-69  the computation returned: Ok is answered with 200
\* and the value as JSON, Err with 500 and err.to_string().
HandlerResponds(v) ==
    /\ computation' = Returned(v)
    /\ http_response' =
          IF v.kind = "Ok" THEN OkJson(v) ELSE InternalServerError(v)
    /\ spc' = "done"
    /\ UNCHANGED <<endpoint, query, computations>>
    /\ UNCHANGED notSrvVars

\* server.rs:19-22
get_covariance_MissingToken1 ==
    /\ spc = "handler" /\ endpoint = "/covariance"
    /\ ~query.token_1.present
    /\ HandlerAnswers(MissingParameter("token_1"))

\* server.rs:24-27
get_covariance_MissingToken2 ==
    /\ spc = "handler" /\ endpoint = "/covariance"
    /\ query.token_1.present
    /\ ~query.token_2.present
    /\ HandlerAnswers(MissingParameter("token_2"))

\* server.rs:30-36
get_covariance_InvalidToken1 ==
    /\ spc = "handler" /\ endpoint = "/covariance"
    /\ query.token_1.present /\ query.token_2.present
    /\ from_str(query.token_1.value) = "-"
    /\ HandlerAnswers(InvalidValue("token_1", query.token_1.value))

\* server.rs:38-44
get_covariance_InvalidToken2 ==
    /\ spc = "handler" /\ endpoint = "/covariance"
    /\ query.token_1.present /\ query.token_2.present
    /\ from_str(query.token_1.value) # "-"
    /\ from_str(query.token_2.value) = "-"
    /\ HandlerAnswers(InvalidValue("token_2", query.token_2.value))

\* server.rs:46  HistoricalData::calculate_covariance(token_1, token_2) is
\* called.
get_covariance_Compute ==
    /\ spc = "handler" /\ endpoint = "/covariance"
    /\ query.token_1.present /\ query.token_2.present
    /\ from_str(query.token_1.value) # "-"
    /\ from_str(query.token_2.value) # "-"
    /\ HandlerComputes

\* server.rs:46-49
get_covariance_Respond ==
    /\ spc = "computing" /\ endpoint = "/covariance"
    /\ \E v \in CovarianceReturns(from_str(query.token_1.value),
                                  from_str(query.token_2.value)) : HandlerResponds(v)

\* server.rs:54-57
get_volatility_MissingToken ==
    /\ spc = "handler" /\ endpoint = "/volatility"
    /\ ~query.token.present
    /\ HandlerAnswers(MissingParameter("token"))

\* server.rs:59-64
get_volatility_InvalidToken ==
    /\ spc = "handler" /\ endpoint = "/volatility"
    /\ query.token.present
    /\ from_str(query.token.value) = "-"
    /\ HandlerAnswers(InvalidValue("token", query.token.value))

\* server.rs:66  HistoricalData::calculate_realized_volatility(token) is
\* called.
get_volatility_Compute ==
    /\ spc = "handler" /\ endpoint = "/volatility"
    /\ query.token.present
    /\ from_str(query.token.value) # "-"
    /\ HandlerComputes

\* server.rs:66-69
get_volatility_Respond ==
    /\ spc = "computing" /\ endpoint = "/volatility"
    /\ \E v \in VolatilityReturns(from_str(query.token.value)) : HandlerResponds(v)

\* server.rs:46, 66  the awaited computation panics (data.rs:226, 230, 238):
\* the handler's future is dropped by the unwinding and returns no response.
ComputationPanics ==
    /\ spc = "computing"
    /\ computation' = Panicked
    /\ spc' = "panic"
    /\ UNCHANGED <<endpoint, query, computations, http_response>>
    /\ UNCHANGED notSrvVars

NextServer ==
    \/ get_covariance_MissingToken1
    \/ get_covariance_MissingToken2
    \/ get_covariance_InvalidToken1
    \/ get_covariance_InvalidToken2
    \/ get_covariance_Compute
    \/ get_covariance_Respond
    \/ get_volatility_MissingToken
    \/ get_volatility_InvalidToken
    \/ get_volatility_Compute
    \/ get_volatility_Respond
    \/ ComputationPanics

SpecServer == InitServer /\ [][NextServer]_vars

\* Every parameter the route requires is there and is an alias of an
\* instrument, in any letter case.
Aliases == {"bitcoin", "btc", "snp500", "snp", "solana", "sol", "ethereum", "eth"}
Recognized(p) == p.present /\ to_lowercase(p.value) \in Aliases
ValidQuery ==
    IF endpoint = "/covariance"
    THEN Recognized(query.token_1) /\ Recognized(query.token_2)
    ELSE Recognized(query.token)

\* C14: a handler answers 400 exactly when a required parameter is missing
\* or is no alias of an instrument, and then no computation (hence no
\* upstream request) was started; with valid parameters it answers 200 when
\* the computation succeeds and 500 with the error's message when the
\* computation fails.
C14_HandlerResponses ==
    spc \in {"done", "panic"} =>
        IF ~ValidQuery
        THEN /\ http_response.status = 400
             /\ computations = 0
        ELSE /\ computations = 1
             /\ computation.kind = "Ok" => http_response = OkJson(computation.value)
             /\ computation.kind # "Ok" =>
                   /\ http_response.status = 500
                   /\ http_response = InternalServerError(computation.value)

\* The part of C14 that holds: the same, for the computations that return.
C14_WhenReturned ==
    spc = "done" =>
        IF ~ValidQuery
        THEN /\ http_response.status = 400
             /\ computations = 0
             /\ http_response.text \in {"Missing query parameter", "Invalid value"}
        ELSE /\ computations = 1
             /\ computation.kind = "Ok" => http_response = OkJson(computation.value)
             /\ computation.kind = "Err" =>
                   http_response = InternalServerError(computation.value)

(***************************************************************************)
(*   calculate_covariance with its two fetches run through the executor    *)
(***************************************************************************)

\* data.rs:86-91  the call is entered; nothing is fetched yet.
InitPipeline ==
    /\ cpc = "fetch_1"
    /\ \E tp \in TokenPairs :
          /\ token_1 = tp[1]
          /\ token_2 = tp[2]
    /\ fetched_1 = NoFetch
    /\ fetched_2 = NoFetch
    /\ token_1_data = EmptySeries
    /\ token_2_data = EmptySeries
    /\ common_dates = {}
    /\ cov_result = NoCovResult
    /\ ReqIdle
    /\ ExtIdle

\* data.rs:211-215  get_yearly_data_by_token calls
\* Request::process_request(Method::GET, &Self::build_url(token), ..): the
\* URL built parses; request.rs:40-42 sets the locals.
CallExecutor ==
    /\ cpc \in {"fetch_1", "fetch_2"}
    /\ pc = "idle"
    /\ method' = "GET"
    /\ url' = GoodUrl
    /\ pc' = "start"
    /\ attempt' = 1
    /\ res' = NoResponse
    /\ result' = NoResult
    /\ sends' = 0
    /\ sleeps' = 0
    /\ transport_errors' = 0
    /\ errors_logged' = 0
    /\ warnings_logged' = 0
    /\ UNCHANGED <<covVars, extVars>>

\* The executor's call is over and its locals are gone.
ExecutorLeft ==
    /\ method' = "-"
    /\ url' = "-"
    /\ pc' = "idle"
    /\ attempt' = 0
    /\ res' = NoResponse
    /\ result' = NoResult
    /\ sends' = 0
    /\ sleeps' = 0
    /\ transport_errors' = 0
    /\ errors_logged' = 0
    /\ warnings_logged' = 0

\* data.rs:90-91, 215-247  the executor returned; the first fetch returns
\* (or panics) and `?` passes its error on.
ReturnFetch1 ==
    /\ cpc = "fetch_1"
    /\ pc = "done"
    /\ LET f == GetYearlyData(token_1, RequestReturnOf(result))
       IN /\ fetched_1' = f
          /\ \/ /\ f.kind = "Ok"
                /\ token_1_data' = f.data
                /\ cpc' = "fetch_2"
                /\ UNCHANGED cov_result
             \/ /\ f.kind = "Err"
                /\ cov_result' = CovFetchErr(f)
                /\ cpc' = "done"
                /\ UNCHANGED token_1_data
             \/ /\ f.kind = "Panic"
                /\ cpc' = "panic"
                /\ UNCHANGED <<token_1_data, cov_result>>
    /\ ExecutorLeft
    /\ UNCHANGED <<token_1, token_2, fetched_2, token_2_data, common_dates>>
    /\ UNCHANGED extVars

\* data.rs:92-93, 215-247  the same for the second fetch.
ReturnFetch2 ==
    /\ cpc = "fetch_2"
    /\ pc = "done"
    /\ LET f == GetYearlyData(token_2, RequestReturnOf(result))
       IN /\ fetched_2' = f
          /\ \/ /\ f.kind = "Ok"
                /\ token_2_data' = f.data
                /\ cpc' = "trim"
                /\ UNCHANGED cov_result
             \/ /\ f.kind = "Err"
                /\ cov_result' = CovFetchErr(f)
                /\ cpc' = "done"
                /\ UNCHANGED token_2_data
             \/ /\ f.kind = "Panic"
                /\ cpc' = "panic"
                /\ UNCHANGED <<token_2_data, cov_result>>
    /\ ExecutorLeft
    /\ UNCHANGED <<token_1, token_2, fetched_1, token_1_data, common_dates>>
    /\ UNCHANGED extVars

\* The steps of the executor that a GET on a URL that parses can take, and
\* the steps of calculate_covariance after its fetches.
NextPipeline ==
    \/ CallExecutor
    \/ ClientBuildFails
    \/ Setup
    \/ AttemptsReached
    \/ Send
    \/ SendFails
    \/ ReceiveOk
    \/ ReceiveRetryable
    \/ ReceiveGatewayTimeout
    \/ JsonParsed
    \/ JsonFails
    \/ TextRead
    \/ TextFails
    \/ SleepDone
    \/ ReturnFetch1
    \/ ReturnFetch2
    \/ Trim
    \/ Align
    \/ Compute

SpecPipeline == InitPipeline /\ [][NextPipeline]_vars

\* What a fetch came to, as the caller of calculate_covariance must see it.
FetchFailed(f) == f.kind \in {"Err", "Panic"}

\* C15: when the executor or the fetcher fails for either instrument,
\* calculate_covariance returns an error with that failure's message; it
\* returns a result only when both fetches succeeded.
C15_FailuresPropagate ==
    /\ (cpc \in {"done", "panic"} /\ FetchFailed(fetched_1))
       => /\ cpc = "done"
          /\ cov_result.kind = "Err"
          /\ cov_result.error = fetched_1.error
          /\ cov_result.request = fetched_1.request
    /\ (cpc \in {"done", "panic"} /\ FetchFailed(fetched_2))
       => /\ cpc = "done"
          /\ cov_result.kind = "Err"
          /\ cov_result.error = fetched_2.error
          /\ cov_result.request = fetched_2.request
    /\ (cpc = "done" /\ cov_result.kind = "Ok")
       => fetched_1.kind = "Ok" /\ fetched_2.kind = "Ok"

\* The part of C15 that holds: every error value of the executor or of the
\* fetcher is the error calculate_covariance returns, and a result is
\* returned only after two successful fetches.
C15_ErrorsPropagate ==
    /\ \A f \in {fetched_1, fetched_2} :
          (cpc = "done" /\ f.kind = "Err")
          => /\ cov_result.kind = "Err"
             /\ cov_result.error = f.error
             /\ cov_result.request = f.request
             /\ cov_result.token_1 = f.token
    /\ (cpc = "done" /\ cov_result.kind = "Ok")
       => fetched_1.kind = "Ok" /\ fetched_2.kind = "Ok"
    /\ cpc = "panic" => cov_result = NoCovResult

(***************************************************************************)
(*           Two concurrent calls of Request::process_request              *)
(***************************************************************************)

\* Positions of one call: at the loop test (line 51), awaiting
\* request.send() with the body read that follows it (lines 63-71, 90),
\* awaiting sleep(wait_delay) (lines 72, 93), returned.
RunPcs == {"idle", "loop", "send", "sleep", "done"}

\* Both calls were entered (GET, a URL that parses) and stand before their
\* first attempt.
InitConcurrent ==
    /\ runs = [r \in Runs |-> EnteredRun]
    /\ ReqIdle
    /\ CovIdle
    /\ FetchIdle
    /\ VolIdle
    /\ SrvIdle

\* request.rs:51-63  the loop test passes and request.send() is called.
RunSend(r) ==
    /\ runs[r].pc = "loop"
    /\ CanAttempt(runs[r].attempt)
    /\ runs' = [runs EXCEPT ![r].pc = "send", ![r].sends = @ + 1]
    /\ UNCHANGED notRunVars

\* request.rs:51,105  the loop test fails.
RunAttemptsReached(r) ==
    /\ runs[r].pc = "loop"
    /\ ~CanAttempt(runs[r].attempt)
    /\ runs' = [runs EXCEPT ![r].pc = "done",
                            ![r].result = AttemptsReachedErr(GoodUrl)]
    /\ UNCHANGED notRunVars

\* request.rs:98-101  Err(_): attempt += 1; continue.
RunSendFails(r) ==
    /\ runs[r].pc = "send"
    /\ runs' = [runs EXCEPT ![r].pc = "loop", ![r].attempt = @ + 1,
                            ![r].transport = @ + 1]
    /\ UNCHANGED notRunVars

\* request.rs:65-68  200 with a body that parses: return Ok(json).
RunReceiveOk(r) ==
    /\ runs[r].pc = "send"
    /\ runs' = [runs EXCEPT ![r].pc = "done", ![r].result = OkResult("B1")]
    /\ UNCHANGED notRunVars

\* request.rs:77-83  504: return Err.
RunReceiveGatewayTimeout(r) ==
    /\ runs[r].pc = "send"
    /\ runs' = [runs EXCEPT
                  ![r].pc = "done",
                  ![r].result = GatewayTimeoutErr(Response(504, GoodUrl, NotJson))]
    /\ UNCHANGED notRunVars

\* request.rs:66,71,90  the body of the response cannot be parsed or read:
\* `?` returns the error.
RunBodyFails(r) ==
    /\ runs[r].pc = "send"
    /\ runs' = [runs EXCEPT ![r].pc = "done", ![r].result = BodyErr]
    /\ UNCHANGED notRunVars

\* request.rs:70-72,85-93  a retried status, its body read and logged:
\* sleep(wait_delay) is called.
RunReceiveRetryable(r) ==
    /\ runs[r].pc = "send"
    /\ runs' = [runs EXCEPT ![r].pc = "sleep", ![r].retried = @ + 1,
                            ![r].sleeps = @ + 1]
    /\ UNCHANGED notRunVars

\* A variant of RunSleepDone where `attempt` is one counter that all the
\* calls share.
RunSleepDone_Shared(r) ==
    /\ runs[r].pc = "sleep"
    /\ runs' = [q \in Runs |->
                  IF q = r
                  THEN [runs[q] EXCEPT !.pc = "loop", !.attempt = @ + 1]
                  ELSE [runs[q] EXCEPT !.attempt = @ + 1]]
    /\ UNCHANGED notRunVars

\* request.rs:72-74,93-95  the sleep of this call is over: attempt += 1.
RunSleepDone(r) ==
    /\ runs[r].pc = "sleep"
    /\ runs' = [runs EXCEPT ![r].pc = "loop", ![r].attempt = @ + 1]
    /\ UNCHANGED notRunVars

\* The next step of call r.
RunStep(r) ==
    \/ RunSend(r)
    \/ RunAttemptsReached(r)
    \/ RunSendFails(r)
    \/ RunReceiveOk(r)
    \/ RunReceiveGatewayTimeout(r)
    \/ RunBodyFails(r)
    \/ RunReceiveRetryable(r)
    \/ RunSleepDone(r)

\* The runtime polls either call whenever it can go on.
NextConcurrent == \E r \in Runs : RunStep(r)

SpecConcurrent == InitConcurrent /\ [][NextConcurrent]_vars

\* What call r must have come to, given only the upstream outcomes it met
\* itself: its attempt counter, its sends and its sleeps.
OwnAttempt(r) ==
    1 + runs[r].transport + runs[r].retried
      - (IF runs[r].pc = "sleep" THEN 1 ELSE 0)
OwnSends(r) ==
    runs[r].transport + runs[r].retried
      + (IF \/ runs[r].pc = "send"
            \/ (runs[r].pc = "done" /\ runs[r].result.error # "AttemptsReached")
         THEN 1 ELSE 0)

\* C16: in every interleaving of two calls, a call that is sleeping leaves
\* the other call able to take its next step, and the attempt counter, the
\* sends, the sleeps and the outcome of each call are those its own
\* upstream outcomes give, whatever the other call met.
C16_Independent ==
    /\ \A r \in Runs : \A q \in Runs \ {r} :
          (runs[r].pc = "sleep" /\ runs[q].pc # "done") => ENABLED RunStep(q)
    /\ \A r \in Runs :
          /\ runs[r].attempt = OwnAttempt(r)
          /\ runs[r].sends = OwnSends(r)
          /\ runs[r].sleeps = runs[r].retried
          /\ (runs[r].pc = "done" /\ runs[r].result.error = "AttemptsReached")
             <=> (runs[r].pc = "done"
                  /\ runs[r].transport + runs[r].retried = attempts_limit)

\* C16 happens: call 1 sleeps after its first response while call 2, having
\* met two transport failures and a retried response meanwhile, is sending.
C16_Witness ==
    /\ runs[1].pc = "sleep"
    /\ runs[1].sends = 1
    /\ runs[2].pc = "send"
    /\ runs[2].attempt = 4
    /\ runs[2].transport = 2
    /\ runs[2].sleeps = 1

(***************************************************************************)
(*              Further claims about Request::process_request              *)
(***************************************************************************)

\* The last response has a status that is retried: neither 200 nor 504.
RetryableResponse ==
    res # NoResponse /\ StatusClass(res.status) \in {"retry_error", "retry_warn"}

\* HTTP responses of a retried status received so far: those whose body was
\* read and logged, and the one whose body is being read or could not be
\* read.
retryable_received ==
    retried + (IF RetryableResponse /\ pc \in {"text", "done"} THEN 1 ELSE 0)

\* C17 as claimed: when the call has ended, it slept as many times as it
\* received HTTP responses with a status other than 200 and 504.
C17_Original ==
    /\ sends = 0 => sleeps = 0
    /\ pc = "done" => sleeps = retryable_received

\* C17: no sleep comes before the first send; every sleep directly follows
\* the reading of the body of a response whose status is neither 200 nor
\* 504; the sleeps are as many as the responses of such a status whose body
\* was read, one less than those received when the last body could not be
\* read; 15 such responses make 15 sleeps.
C17_SleepsFollowResponses ==
    /\ [](sends = 0 => sleeps = 0)
    /\ [][sleeps' # sleeps =>
            /\ sends > 0
            /\ pc = "text"
            /\ RetryableResponse
            /\ TextReads(res.body)
            /\ res' = res
            /\ sleeps' = sleeps + 1
            /\ pc' = "sleep"]_vars
    /\ [](sleeps = retried)
    /\ [](pc = "done" =>
            sleeps = retryable_received
                       - (IF RetryableResponse /\ ~TextReads(res.body)
                          THEN 1 ELSE 0))
    /\ []((pc = "done" /\ retried = attempts_limit) =>
            (sleeps = attempts_limit /\ result.error = "AttemptsReached"))

\* C17 happens: 15 responses of retried statuses, no transport failure: the
\* call slept 15 times, the last time after the 15th attempt.
C17_Witness ==
    /\ pc = "done"
    /\ result.error = "AttemptsReached"
    /\ transport_errors = 0
    /\ errors_logged = 8
    /\ warnings_logged = 7
    /\ sends = attempts_limit
    /\ sleeps = attempts_limit

\* A response has been received whose body cannot be parsed (200) or read
\* (a retried status).
BodyUnusable ==
    /\ res # NoResponse
    /\ \/ StatusClass(res.status) = "ok" /\ ~JsonParses(res.body)
       \/ RetryableResponse /\ ~TextReads(res.body)

\* C20: once a response has been received whose body cannot be parsed or
\* read, the call's next step is to return the body error: it does not
\* sleep, does not count the attempt and does not send again, whatever
\* attempts remain.
C20_BodyFailureEnds ==
    /\ [](BodyUnusable => pc \in {"json", "text", "done"})
    /\ [][(BodyUnusable /\ pc \in {"json", "text"}) =>
            /\ pc' = "done"
            /\ result' = BodyErr
            /\ sleeps' = sleeps
            /\ sends' = sends
            /\ attempt' = attempt]_vars
    /\ []((pc = "done" /\ BodyUnusable) =>
            /\ result = BodyErr
            /\ sends = attempt
            /\ sleeps = retried)
    /\ [](result = BodyErr => BodyUnusable)

\* C20 happens: the first response is a 429 whose body cannot be read; the
\* call ended with the body error after one send and no sleep, 14 attempts
\* remaining.
C20_Witness ==
    /\ pc = "done"
    /\ result = BodyErr
    /\ res.status = 429
    /\ res.body = Truncated
    /\ attempt = 1
    /\ sends = 1
    /\ sleeps = 0

(***************************************************************************)
(*                 Further claims about calculate_covariance               *)
(***************************************************************************)

\* C19: after the trimming step, if the fetched series differ in size the
\* larger one has lost exactly its dates that the smaller one lacks and
\* kept the prices of the others, and the smaller one is as it was fetched;
\* if they have the same size both are as they were fetched.
C19_TrimFrame ==
    LET f1 == fetched_1.data
        f2 == fetched_2.data
        n1 == Cardinality(DOMAIN f1)
        n2 == Cardinality(DOMAIN f2)
    IN AfterTrim =>
         /\ n1 > n2 =>
               /\ DOMAIN token_1_data = DOMAIN f1 \ (DOMAIN f1 \ DOMAIN f2)
               /\ \A d \in DOMAIN token_1_data : token_1_data[d] = f1[d]
               /\ token_2_data = f2
         /\ n1 < n2 =>
               /\ DOMAIN token_2_data = DOMAIN f2 \ (DOMAIN f2 \ DOMAIN f1)
               /\ \A d \in DOMAIN token_2_data : token_2_data[d] = f2[d]
               /\ token_1_data = f1
         /\ n1 = n2 =>
               /\ token_1_data = f1
               /\ token_2_data = f2

\* C19 happens: the dates 1, 2, 3 against the dates 3, 4: the first series
\* is left with the date 3 and its price, the second keeps the date 4 that
\* the first never had.
C19_Witness ==
    /\ cpc = "align"
    /\ DOMAIN fetched_1.data = {1, 2, 3}
    /\ fetched_1.data[3] = 2
    /\ DOMAIN fetched_2.data = {3, 4}
    /\ DOMAIN token_1_data = {3}
    /\ token_1_data[3] = 2
    /\ token_2_data = fetched_2.data

\* The checks of the alignment have decided.
AfterAlign == BothFetched /\ cpc \in {"compute", "done"}

\* The outcome class the call came to: success, or the error it returned.
AlignedAs ==
    IF cpc = "compute" \/ cov_result.kind = "Ok" THEN "Aligned"
    ELSE cov_result.error

\* The outcome class and the common dates of the same two series given in
\* the other order: trimming (data.rs:95-106), then the checks (108-126).
SwappedOutcome ==
    LET a == fetched_2.data
        b == fetched_1.data
    IN AlignOutcome(Trimmed1(a, b), Trimmed2(a, b))
SwappedCommonDates ==
    LET a == fetched_2.data
        b == fetched_1.data
    IN CommonDates(Trimmed1(a, b), Trimmed2(a, b))

\* C21: the alignment of two series comes to the same outcome class
\* (no-common-timestamps error, unequal-amount error or success) as the
\* alignment of the same series in the other order, and on success to the
\* same set of common dates.
C21_OrderIndependent ==
    AfterAlign =>
        /\ AlignedAs = SwappedOutcome
        /\ AlignedAs = "Aligned" => common_dates = SwappedCommonDates

\* C21 happens: the dates 1, 2, 3 against the dates 1, 2 aligned on the
\* dates 1, 2, the first series being the one trimmed; in the other order
\* it is the second.
C21_Witness ==
    /\ cpc = "done"
    /\ cov_result.kind = "Ok"
    /\ DOMAIN fetched_1.data = {1, 2, 3}
    /\ DOMAIN fetched_2.data = {1, 2}
    /\ common_dates = {1, 2}
    /\ Trimmed2(fetched_2.data, fetched_1.data) # fetched_1.data

\* The unequal-amount error comes in both orders too: three dates against
\* two, one of the two outside the three.
C21_UnequalBothWays ==
    /\ cpc = "done"
    /\ cov_result.error = "AmountNotEqual"
    /\ Cardinality(DOMAIN fetched_1.data) = 3
    /\ Cardinality(DOMAIN fetched_2.data) = 2
    /\ SwappedOutcome = "AmountNotEqual"

=========================================================================
